---------------------------- MODULE Spec2Model ----------------------------
(***************************************************************************)
(* A model of pocket_tts/voices/voice_manager.py: the VoiceManager         *)
(* registry (predefined voices plus file voices discovered by scanning a   *)
(* directory), its refresh operation and its read accessors, called from   *)
(* several threads.                                                        *)
(*                                                                         *)
(* Lists are objects on a heap (Python lists are references), characters   *)
(* are their code points, strings are sequences of code points, and an     *)
(* optional value is <<>> (None) or <<v>>.                                 *)
(***************************************************************************)
EXTENDS Naturals, Sequences, FiniteSets

(***************************************************************************)
(* Bounds of the model.                                                    *)
(***************************************************************************)
NThreads == 2
MaxCalls == 2
MaxFsChanges == 1

Threads == 1..NThreads
Main == 1
NoThread == 0
Ids == 0..(NThreads + 1)
NoList == NThreads + 2

(***************************************************************************)
(* Strings.                                                                *)
(***************************************************************************)
WavSuffix == <<46, 119, 97, 118>>
TxtSuffix == <<46, 116, 120, 116>>
Whitespace == {9, 10, 11, 12, 13, 28, 29, 30, 31, 32}

None == <<>>
Some(v) == <<v>>

\* str < str: code point by code point, a proper prefix first
RECURSIVE StrLess(_, _)
StrLess(a, b) ==
    IF b = <<>> THEN FALSE
    ELSE IF a = <<>> THEN TRUE
    ELSE IF a[1] # b[1] THEN a[1] < b[1]
    ELSE StrLess(Tail(a), Tail(b))

\* the i-th smallest element of a set of numbers, and the elements of a
\* sequence at the positions of such a set, in order
Nth(K, i) == CHOOSE k \in K : Cardinality({j \in K : j <= k}) = i
Continuation == 128..191

\* bytes.decode("utf-8"), for characters of one and two bytes: whether the
\* bytes are valid, and the code points they encode
Utf8Valid(b) ==
    \A k \in 1..Len(b) :
        \/ b[k] < 128
        \/ b[k] \in 194..223 /\ k < Len(b) /\ b[k + 1] \in Continuation
        \/ b[k] \in Continuation /\ k > 1 /\ b[k - 1] \in 194..223

Utf8Decode(b) ==
    LET leads == {k \in 1..Len(b) : b[k] \notin Continuation} IN
    [i \in 1..Cardinality(leads) |->
        LET k == Nth(leads, i) IN
        IF b[k] < 128 THEN b[k] ELSE (b[k] - 192) * 64 + (b[k + 1] - 128)]

\* reading in text mode (newline=None): "\r\n" and "\r" become "\n"
UniversalNewlines(s) ==
    LET kept == {k \in 1..Len(s) : ~(s[k] = 10 /\ k > 1 /\ s[k - 1] = 13)} IN
    [i \in 1..Cardinality(kept) |->
        LET c == s[Nth(kept, i)] IN IF c = 13 THEN 10 ELSE c]

\* str.strip()
LStrip(s) ==
    LET ink == {k \in 1..Len(s) : s[k] \notin Whitespace} IN
    IF ink = {} THEN <<>> ELSE SubSeq(s, Nth(ink, 1), Len(s))

RStrip(s) ==
    LET ink == {k \in 1..Len(s) : s[k] \notin Whitespace} IN
    IF ink = {} THEN <<>> ELSE SubSeq(s, 1, Nth(ink, Cardinality(ink)))

Strip(s) == RStrip(LStrip(s))

(***************************************************************************)
(* Paths (pathlib).  A path is a sequence of parts; "/" is the root part.  *)
(***************************************************************************)
Root == <<47>>
Cwd == <<Root, <<115, 114, 118>>>>
IsAbsolute(p) == p # <<>> /\ p[1] = Root

\* Path.resolve(): a relative path is joined to the working directory
Resolve(p) == IF IsAbsolute(p) THEN p ELSE Cwd \o p

\* a file name matches the pattern "*" followed by suf
HasSuffix(n, suf) ==
    /\ Len(n) >= Len(suf)
    /\ SubSeq(n, Len(n) - Len(suf) + 1, Len(n)) = suf

\* name.rfind("."), counted from 1; 0 when there is no dot
RFindDot(n) ==
    LET dots == {k \in 1..Len(n) : n[k] = 46} IN
    IF dots = {} THEN 0 ELSE CHOOSE k \in dots : \A j \in dots : j <= k

\* Path.suffix, Path.stem and Path.with_suffix of a file name: the suffix
\* starts at the last dot, unless that dot is the first or the last
\* character of the name (".wav" has no suffix and is its own stem)
Suffix(n) ==
    LET k == RFindDot(n) IN
    IF 1 < k /\ k < Len(n) THEN SubSeq(n, k, Len(n)) ELSE <<>>
Stem(n) == SubSeq(n, 1, Len(n) - Len(Suffix(n)))
WithSuffix(n, suf) == SubSeq(n, 1, Len(n) - Len(Suffix(n))) \o suf

\* Path < Path: part by part
RECURSIVE PathLess(_, _)
PathLess(p, q) ==
    IF q = <<>> THEN FALSE
    ELSE IF p = <<>> THEN TRUE
    ELSE IF p[1] # q[1] THEN StrLess(p[1], q[1])
    ELSE PathLess(Tail(p), Tail(q))

\* the last part of a path
Name(p) == p[Len(p)]

\* sorted() of paths: insertion sort
RECURSIVE InsertPath(_, _)
InsertPath(x, s) ==
    IF s = <<>> THEN <<x>>
    ELSE IF PathLess(x, s[1]) THEN <<x>> \o s
    ELSE <<s[1]>> \o InsertPath(x, Tail(s))

RECURSIVE SortedPaths(_)
SortedPaths(s) ==
    IF s = <<>> THEN <<>> ELSE InsertPath(s[1], SortedPaths(Tail(s)))

\* sorted() of strings: insertion sort
RECURSIVE InsertStr(_, _)
InsertStr(x, s) ==
    IF s = <<>> THEN <<x>>
    ELSE IF StrLess(x, s[1]) THEN <<x>> \o s
    ELSE <<s[1]>> \o InsertStr(x, Tail(s))

RECURSIVE SortedStrs(_)
SortedStrs(s) ==
    IF s = <<>> THEN <<>> ELSE InsertStr(s[1], SortedStrs(Tail(s)))

\* the enumerations of a finite set: every order a directory scan or a
\* dict may produce
RECURSIVE Enumerations(_)
Enumerations(S) ==
    IF S = {} THEN {<<>>}
    ELSE UNION {{<<x>> \o e : e \in Enumerations(S \ {x})} : x \in S}

Range(s) == {s[i] : i \in 1..Len(s)}

(***************************************************************************)
(* The filesystem the registry scans.                                      *)
(***************************************************************************)
\* base names of the files that may appear: "a" and "a-" ("a-.wav" sorts
\* before "a.wav", "a" before "a-")
Stems == {<<97>>, <<97, 45>>}

\* the base names "" and ".wav" of the files ".wav" and ".wav.wav", which
\* glob("*.wav") matches as well
DotStems == {<<>>, WavSuffix}

\* the .wav file names, with the stem and the transcript file name of each
WavNames == {b \o WavSuffix : b \in Stems \cup DotStems}
StemOf == [n \in WavNames |-> Stem(n)]
TxtNameOf == [n \in WavNames |-> WithSuffix(n, TxtSuffix)]

\* the directory: usable; missing (or not a directory); unreadable (no read
\* permission: cannot be listed); unsearchable (no search permission: its
\* entries cannot be stat'ed); ioerror (listing fails with an I/O error)
DirStates == {"ok", "missing", "unreadable", "unsearchable", "ioerror"}

\* a transcript file: absent, present and readable, or present and not
\* readable as UTF-8 text
TxtStates == {"none", "ok", "bad"}

\* the bytes of a readable transcript s.txt: " a\r\n\xc3\xa9!\n" for "a"
\* (a line ending inside and a two-byte character), " s!\n" for another s
Content(s) ==
    IF s = <<97>> THEN <<32, 97, 13, 10, 195, 169, 33, 10>>
    ELSE <<32>> \o s \o <<33, 10>>

\* the bytes of a transcript that is not UTF-8
BadContent == <<32, 255>>

\* the configured voices_directory, a relative path
VoicesDirectory == <<<<118>>>>

\* the predefined maps a registry may be built with (name -> descriptor)
PredefinedMaps ==
    { [n \in {} |-> 0],
      [n \in {<<98>>, <<97>>} |-> 1] }

(***************************************************************************)
(* VoiceInfo                                                               *)
(***************************************************************************)
VoiceInfo(name, source, file_path, transcript) ==
    [name |-> name, source |-> source,
     file_path |-> file_path, transcript |-> transcript]

VARIABLES
    dir,                \* filesystem: state of the voices directory
    wavs,               \* filesystem: stems s with s.wav in the directory
    txt,                \* filesystem: state of s.txt, for each stem s
    fsChanges,          \* number of filesystem changes so far
    calls,              \* number of method calls started so far
    constructed,        \* __init__ has returned
    predefined_voices,  \* self._predefined_voices
    file_voices,        \* self._file_voices: a list object
    lock,               \* self._lock: the thread holding it, or NoThread
    heap,               \* the list objects
    pc,                 \* each thread's position
    op,                 \* each thread's method
    new_file_voices,    \* refresh's local list
    wav_files,          \* refresh's sorted listing
    idx,                \* refresh's loop position
    transcript,         \* refresh's transcript of the current file
    voices,             \* get_all_voices' local list
    ret,                \* what each thread's last call returned
    \* history variables: they record what happened and steer nothing
    published,          \* the lists that were ever the file-voice list
    lastSwap,           \* the thread whose refresh swapped last
    scanResult,         \* the list each thread's latest finished scan built
    raced,              \* a swap happened while another refresh was running
    seen,               \* what refresh found of each transcript so far
    cleanStart,         \* stems absent ever since the thread's refresh began
    refreshedSince,     \* stems absent ever since a refresh that has returned began
    staleFor,           \* stems removed since the thread's latest listing
    removedSinceListed, \* stems removed since the listing the current list is from
    startedAfterRead,   \* the thread's refresh began after a get_all_voices returned
    snap                \* the file-voice list a read took

fsVars == <<dir, wavs, txt, fsChanges>>
objVars == <<constructed, predefined_voices, file_voices, lock, heap>>
refreshVars == <<new_file_voices, wav_files, idx, transcript>>
histVars == <<published, lastSwap, scanResult, raced, seen, cleanStart,
              refreshedSince, staleFor, removedSinceListed, startedAfterRead,
              snap>>
vars == <<dir, wavs, txt, fsChanges, calls, constructed, predefined_voices,
          file_voices, lock, heap, pc, op, new_file_voices, wav_files, idx,
          transcript, voices, ret, published, lastSwap, scanResult, raced,
          seen, cleanStart, refreshedSince, staleFor, removedSinceListed,
          startedAfterRead, snap>>

(***************************************************************************)
(* Return values and the heap.                                             *)
(***************************************************************************)
NoRet == [kind |-> "none", v |-> 0]
Returned == [kind |-> "returned", v |-> 0]
ListRet(i) == [kind |-> "list", v |-> i]
IntRet(n) == [kind |-> "int", v |-> n]
\* an exception left the call; v is its errno
Raised(e) == [kind |-> "raised", v |-> e]
EIO == 5
EACCES == 13

\* the list objects something still refers to
Live(fv, nfv, vs, rt) ==
    {fv} \cup {nfv[t] : t \in Threads} \cup {vs[t] : t \in Threads}
         \cup {rt[t].v : t \in {u \in Threads : rt[u].kind = "list"}}

\* a list object nothing refers to
FreshId(live) ==
    CHOOSE i \in Ids : i \notin live /\ \A j \in Ids : j \notin live => i <= j

\* unreferenced list objects are collected
Collect(h, live) == [i \in Ids |-> IF i \in live THEN h[i] ELSE <<>>]

LiveNow == Live(file_voices, new_file_voices, voices, ret)

(***************************************************************************)
(* __init__, lines 22-27: the fields are set and refresh has been entered   *)
(* on the constructing thread (line 31: new_file_voices = []); no other    *)
(* thread has the object yet.  The directory starts with all or none of    *)
(* the voice files and with transcripts of one kind; a change of the       *)
(* filesystem makes it mixed.                                              *)
(***************************************************************************)
InitFor(bases) ==
    /\ dir \in DirStates
    /\ wavs \in {{}, bases}
    /\ \E k \in TxtStates :
        txt = [s \in {StemOf[b \o WavSuffix] : b \in bases} |-> k]
    /\ fsChanges = 0
    /\ calls = 0
    /\ constructed = FALSE
    /\ predefined_voices \in PredefinedMaps
    /\ file_voices = 0
    /\ lock = NoThread
    /\ heap = [i \in Ids |-> <<>>]
    /\ pc = [t \in Threads |-> IF t = Main THEN "r_check" ELSE "idle"]
    /\ op = [t \in Threads |-> IF t = Main THEN "__init__" ELSE "none"]
    /\ new_file_voices = [t \in Threads |-> IF t = Main THEN 1 ELSE NoList]
    /\ wav_files = [t \in Threads |-> <<>>]
    /\ idx = [t \in Threads |-> 0]
    /\ transcript = [t \in Threads |-> None]
    /\ voices = [t \in Threads |-> NoList]
    /\ ret = [t \in Threads |-> NoRet]
    /\ published = {<<>>}
    /\ lastSwap = NoThread
    /\ scanResult = [t \in Threads |-> <<>>]
    /\ raced = FALSE
    /\ seen = [t \in Threads |-> <<>>]
    /\ cleanStart = [t \in Threads |-> IF t = Main THEN Stems \ wavs ELSE {}]
    /\ refreshedSince = {}
    /\ staleFor = [t \in Threads |-> {}]
    /\ removedSinceListed = {}
    /\ startedAfterRead = [t \in Threads |-> FALSE]
    /\ snap = [t \in Threads |-> <<>>]

Init == InitFor(Stems)

(***************************************************************************)
(* What the filesystem answers.                                            *)
(***************************************************************************)
\* the names in the directory: b.wav for the base names b of wavs, and
\* s.txt for the stems s whose transcript file exists
DirEntries ==
    {b \o WavSuffix : b \in wavs}
        \cup {s \o TxtSuffix : s \in {u \in DOMAIN txt : txt[u] # "none"}}

\* the base names of the .wav files that may come and go: those whose
\* transcript file the directory keeps track of
Bases == {b \in Stems \cup DotStems : StemOf[b \o WavSuffix] \in DOMAIN txt}

\* Path.glob("*.wav") of a directory that can be listed
Glob == {VoicesDirectory \o <<n>> : n \in {m \in DirEntries : HasSuffix(m, WavSuffix)}}

\* a scan that is over (its loop is done, or there was nothing to loop over)
\* goes on to the swap
ScanDone(t, list) == scanResult' = [scanResult EXCEPT ![t] = list]

\* RefreshRaises with an error handler that empties the shared list
\* (self._file_voices.clear()) before the exception goes on
RefreshRaises_clears_list(t, e) ==
    /\ pc' = [pc EXCEPT ![t] = "idle"]
    /\ ret' = [ret EXCEPT ![t] = Raised(e)]
    /\ new_file_voices' = [new_file_voices EXCEPT ![t] = NoList]
    /\ heap' = [Collect(heap, Live(file_voices, new_file_voices', voices, ret'))
                    EXCEPT ![file_voices] = <<>>]
    /\ wav_files' = [wav_files EXCEPT ![t] = <<>>]
    /\ idx' = [idx EXCEPT ![t] = 0]
    /\ transcript' = [transcript EXCEPT ![t] = None]
    /\ seen' = [seen EXCEPT ![t] = <<>>]
    /\ UNCHANGED scanResult

\* an exception leaves refresh: the call is over, nothing was swapped
RefreshRaises(t, e) ==
    /\ pc' = [pc EXCEPT ![t] = "idle"]
    /\ ret' = [ret EXCEPT ![t] = Raised(e)]
    /\ new_file_voices' = [new_file_voices EXCEPT ![t] = NoList]
    /\ heap' = Collect(heap, Live(file_voices, new_file_voices', voices, ret'))
    /\ wav_files' = [wav_files EXCEPT ![t] = <<>>]
    /\ idx' = [idx EXCEPT ![t] = 0]
    /\ transcript' = [transcript EXCEPT ![t] = None]
    /\ seen' = [seen EXCEPT ![t] = <<>>]
    /\ UNCHANGED scanResult

(***************************************************************************)
(* refresh, lines 29-63                                                    *)
(***************************************************************************)
\* refresh_check with the whole of refresh inside "with self._lock"
refresh_check_under_lock(t) ==
    /\ pc[t] = "r_check"
    /\ lock = NoThread
    /\ lock' = t
    /\ IF dir = "missing"
       THEN /\ pc' = [pc EXCEPT ![t] = "r_swap"]
            /\ ScanDone(t, heap[new_file_voices[t]])
       ELSE /\ pc' = [pc EXCEPT ![t] = "r_glob"]
            /\ UNCHANGED scanResult
    /\ staleFor' = [staleFor EXCEPT ![t] = {}]
    /\ UNCHANGED <<fsVars, calls, constructed, predefined_voices, file_voices,
                   heap, op, refreshVars, voices, ret, published, lastSwap,
                   raced, seen, cleanStart, refreshedSince, removedSinceListed,
                   startedAfterRead, snap>>

\* refresh_check returning at once when there is no directory, without
\* the swap
refresh_check_returns_early(t) ==
    /\ pc[t] = "r_check"
    /\ IF dir = "missing"
       THEN /\ pc' = [pc EXCEPT ![t] = "idle"]
            /\ ret' = [ret EXCEPT ![t] = Returned]
            /\ new_file_voices' = [new_file_voices EXCEPT ![t] = NoList]
            /\ heap' = Collect(heap, Live(file_voices, new_file_voices', voices, ret'))
            /\ constructed' = (constructed \/ op[t] = "__init__")
            /\ refreshedSince' = refreshedSince \cup cleanStart[t]
            /\ ScanDone(t, <<>>)
       ELSE /\ pc' = [pc EXCEPT ![t] = "r_glob"]
            /\ UNCHANGED <<ret, new_file_voices, heap, constructed,
                           refreshedSince, scanResult>>
    /\ staleFor' = [staleFor EXCEPT ![t] = {}]
    /\ UNCHANGED <<fsVars, calls, predefined_voices, file_voices, lock, op,
                   wav_files, idx, transcript, voices, published, lastSwap,
                   raced, seen, cleanStart, removedSinceListed,
                   startedAfterRead, snap>>

\* line 33: self._voices_directory.exists() and .is_dir()
refresh_check(t) ==
    /\ pc[t] = "r_check"
    /\ IF dir = "missing"
       THEN /\ pc' = [pc EXCEPT ![t] = "r_lock"]
            /\ ScanDone(t, heap[new_file_voices[t]])
       ELSE /\ pc' = [pc EXCEPT ![t] = "r_glob"]
            /\ UNCHANGED scanResult
    /\ staleFor' = [staleFor EXCEPT ![t] = {}]
    /\ UNCHANGED <<fsVars, calls, objVars, op, refreshVars, voices, ret,
                   published, lastSwap, raced, seen, cleanStart,
                   refreshedSince, removedSinceListed, startedAfterRead, snap>>

\* refresh_glob without sorted(): wav_files is the listing in the order the
\* filesystem enumerates it
refresh_glob_unsorted(t) ==
    /\ pc[t] = "r_glob"
    /\ staleFor' = [staleFor EXCEPT ![t] = {}]
    /\ IF dir = "ioerror"
       THEN RefreshRaises(t, EIO)
       ELSE /\ \E e \in Enumerations(IF dir \in {"ok", "unsearchable"}
                                     THEN Glob ELSE {}) :
                /\ wav_files' = [wav_files EXCEPT ![t] = e]
                /\ IF e = <<>>
                   THEN /\ pc' = [pc EXCEPT ![t] = "r_lock"]
                        /\ ScanDone(t, heap[new_file_voices[t]])
                   ELSE /\ pc' = [pc EXCEPT ![t] = "r_txt"]
                        /\ UNCHANGED scanResult
            /\ idx' = [idx EXCEPT ![t] = 1]
            /\ UNCHANGED <<heap, new_file_voices, transcript, ret, seen>>
    /\ UNCHANGED <<fsVars, calls, constructed, predefined_voices, file_voices,
                   lock, op, voices, published, lastSwap, raced, cleanStart,
                   refreshedSince, removedSinceListed, startedAfterRead, snap>>

\* line 34: wav_files = sorted(self._voices_directory.glob("*.wav")).
\* glob yields nothing for a path that is no directory and for a directory
\* it is denied to list; any other error of the listing leaves it.
refresh_glob(t) ==
    /\ pc[t] = "r_glob"
    /\ staleFor' = [staleFor EXCEPT ![t] = {}]
    /\ IF dir = "ioerror"
       THEN RefreshRaises(t, EIO)
       ELSE /\ \E e \in Enumerations(IF dir \in {"ok", "unsearchable"}
                                     THEN Glob ELSE {}) :
                /\ wav_files' = [wav_files EXCEPT ![t] = SortedPaths(e)]
                /\ IF e = <<>>
                   THEN /\ pc' = [pc EXCEPT ![t] = "r_lock"]
                        /\ ScanDone(t, heap[new_file_voices[t]])
                   ELSE /\ pc' = [pc EXCEPT ![t] = "r_txt"]
                        /\ UNCHANGED scanResult
            /\ idx' = [idx EXCEPT ![t] = 1]
            /\ UNCHANGED <<heap, new_file_voices, transcript, ret, seen>>
    /\ UNCHANGED <<fsVars, calls, constructed, predefined_voices, file_voices,
                   lock, op, voices, published, lastSwap, raced, cleanStart,
                   refreshedSince, removedSinceListed, startedAfterRead, snap>>

\* AppendVoice with file_path=str(wav_path), not resolved
AppendVoice_unresolved(t, tr) ==
    LET wav_path == wav_files[t][idx[t]]
        list == Append(heap[new_file_voices[t]],
                       VoiceInfo(StemOf[Name(wav_path)], "file",
                                 Some(wav_path), tr))
    IN
    /\ heap' = [heap EXCEPT ![new_file_voices[t]] = list]
    /\ idx' = [idx EXCEPT ![t] = @ + 1]
    /\ IF idx[t] = Len(wav_files[t])
       THEN /\ pc' = [pc EXCEPT ![t] = "r_lock"]
            /\ ScanDone(t, list)
       ELSE /\ pc' = [pc EXCEPT ![t] = "r_txt"]
            /\ UNCHANGED scanResult

\* lines 47-54: new_file_voices.append(VoiceInfo(name=voice_name,
\* source="file", file_path=str(wav_path.resolve()), transcript=transcript)),
\* and the loop goes on to the next file or ends
AppendVoice(t, tr) ==
    LET wav_path == wav_files[t][idx[t]]
        list == Append(heap[new_file_voices[t]],
                       VoiceInfo(StemOf[Name(wav_path)], "file",
                                 Some(Resolve(wav_path)), tr))
    IN
    /\ heap' = [heap EXCEPT ![new_file_voices[t]] = list]
    /\ idx' = [idx EXCEPT ![t] = @ + 1]
    /\ IF idx[t] = Len(wav_files[t])
       THEN /\ pc' = [pc EXCEPT ![t] = "r_lock"]
            /\ ScanDone(t, list)
       ELSE /\ pc' = [pc EXCEPT ![t] = "r_txt"]
            /\ UNCHANGED scanResult

\* refresh_txt_exists with a check of the .wav file itself: a file that is
\* gone since the listing is skipped ("if not wav_path.exists(): continue")
refresh_txt_exists_skips_missing_wav(t) ==
    /\ pc[t] = "r_txt"
    /\ LET txt_name == TxtNameOf[Name(wav_files[t][idx[t]])] IN
       IF dir = "unsearchable"
       THEN RefreshRaises(t, EACCES)
       ELSE /\ transcript' = [transcript EXCEPT ![t] = None]
            /\ IF dir # "missing" /\ Name(wav_files[t][idx[t]]) \notin DirEntries
               THEN /\ idx' = [idx EXCEPT ![t] = @ + 1]
                    /\ IF idx[t] = Len(wav_files[t])
                       THEN /\ pc' = [pc EXCEPT ![t] = "r_lock"]
                            /\ ScanDone(t, heap[new_file_voices[t]])
                       ELSE /\ pc' = [pc EXCEPT ![t] = "r_txt"]
                            /\ UNCHANGED scanResult
                    /\ UNCHANGED <<heap, seen>>
               ELSE IF dir # "missing" /\ txt_name \in DirEntries
               THEN /\ pc' = [pc EXCEPT ![t] = "r_read"]
                    /\ UNCHANGED <<heap, idx, scanResult, seen>>
               ELSE /\ AppendVoice(t, None)
                    /\ seen' = [seen EXCEPT ![t] = Append(@, "absent")]
            /\ UNCHANGED <<new_file_voices, wav_files, ret>>
    /\ UNCHANGED <<fsVars, calls, constructed, predefined_voices, file_voices,
                   lock, op, voices, published, lastSwap, raced, cleanStart,
                   refreshedSince, staleFor, removedSinceListed,
                   startedAfterRead, snap>>

\* lines 35-41: voice_name = wav_path.stem; transcript = None;
\* txt_path = wav_path.with_suffix(".txt"); txt_path.exists().
\* exists() is False for a missing file and raises when the file cannot be
\* stat'ed for lack of search permission on the directory.  With no
\* transcript file the voice is appended at once (lines 47-54).
refresh_txt_exists(t) ==
    /\ pc[t] = "r_txt"
    /\ LET txt_name == TxtNameOf[Name(wav_files[t][idx[t]])] IN
       IF dir = "unsearchable"
       THEN RefreshRaises(t, EACCES)
       ELSE /\ transcript' = [transcript EXCEPT ![t] = None]
            /\ IF dir # "missing" /\ txt_name \in DirEntries
               THEN /\ pc' = [pc EXCEPT ![t] = "r_read"]
                    /\ UNCHANGED <<heap, idx, scanResult, seen>>
               ELSE /\ AppendVoice(t, None)
                    /\ seen' = [seen EXCEPT ![t] = Append(@, "absent")]
            /\ UNCHANGED <<new_file_voices, wav_files, ret>>
    /\ UNCHANGED <<fsVars, calls, constructed, predefined_voices, file_voices,
                   lock, op, voices, published, lastSwap, raced, cleanStart,
                   refreshedSince, staleFor, removedSinceListed,
                   startedAfterRead, snap>>

\* the bytes of the file s.txt that is in state k
FileBytes(s, k) == IF k = "bad" THEN BadContent ELSE Content(s)

\* txt_path.read_text(encoding="utf-8") of bytes that are valid UTF-8
ReadText(b) == UniversalNewlines(Utf8Decode(b))

\* the transcripts without .strip()
Unstripped ==
    [s \in {StemOf[n] : n \in WavNames} |-> [k \in {"ok", "bad"} |->
        IF Utf8Valid(FileBytes(s, k))
        THEN Some(ReadText(FileBytes(s, k)))
        ELSE None]]

\* ReadTranscript without .strip()
ReadTranscript_unstripped(stem) ==
    IF dir \in {"ok", "unreadable", "ioerror"} /\ txt[stem] # "none"
    THEN Unstripped[stem][txt[stem]]
    ELSE None

\* what read_text(encoding="utf-8").strip() gives for each transcript file
\* that exists: the stripped text, None when decoding raises
Transcripts ==
    [s \in {StemOf[n] : n \in WavNames} |-> [k \in {"ok", "bad"} |->
        IF Utf8Valid(FileBytes(s, k))
        THEN Some(Strip(ReadText(FileBytes(s, k))))
        ELSE None]]

\* the transcript read_text(encoding="utf-8").strip() gives, None when it
\* raises (the file or the directory is gone, or the bytes are not UTF-8)
ReadTranscript(stem) ==
    IF dir \in {"ok", "unreadable", "ioerror"} /\ txt[stem] # "none"
    THEN Transcripts[stem][txt[stem]]
    ELSE None

\* refresh_read with a transcript that cannot be read dropping its voice
\* ("continue" in the except block)
refresh_read_skips_voice(t) ==
    /\ pc[t] = "r_read"
    /\ LET tr == ReadTranscript(StemOf[Name(wav_files[t][idx[t]])]) IN
        /\ transcript' = [transcript EXCEPT ![t] = tr]
        /\ seen' = [seen EXCEPT ![t] = Append(@, IF tr = None THEN "unreadable" ELSE "ok")]
        /\ IF tr # None
           THEN AppendVoice(t, tr)
           ELSE /\ idx' = [idx EXCEPT ![t] = @ + 1]
                /\ UNCHANGED heap
                /\ IF idx[t] = Len(wav_files[t])
                   THEN /\ pc' = [pc EXCEPT ![t] = "r_lock"]
                        /\ ScanDone(t, heap[new_file_voices[t]])
                   ELSE /\ pc' = [pc EXCEPT ![t] = "r_txt"]
                        /\ UNCHANGED scanResult
    /\ UNCHANGED <<fsVars, calls, constructed, predefined_voices, file_voices,
                   lock, op, new_file_voices, wav_files, voices, ret,
                   published, lastSwap, raced, cleanStart, refreshedSince,
                   staleFor, removedSinceListed, startedAfterRead, snap>>

\* lines 42-54: transcript = txt_path.read_text(encoding="utf-8").strip(),
\* any exception of it is logged and swallowed, and the voice is appended
refresh_read(t) ==
    /\ pc[t] = "r_read"
    /\ LET tr == ReadTranscript(StemOf[Name(wav_files[t][idx[t]])]) IN
        /\ transcript' = [transcript EXCEPT ![t] = tr]
        /\ seen' = [seen EXCEPT ![t] = Append(@, IF tr = None THEN "unreadable" ELSE "ok")]
        /\ AppendVoice(t, tr)
    /\ UNCHANGED <<fsVars, calls, constructed, predefined_voices, file_voices,
                   lock, op, new_file_voices, wav_files, voices, ret,
                   published, lastSwap, raced, cleanStart, refreshedSince,
                   staleFor, removedSinceListed, startedAfterRead, snap>>

\* a refresh is running on the thread
InRefresh(t) == op[t] \in {"refresh", "__init__"} /\ pc[t] # "idle"

\* line 56: with self._lock (entered)
refresh_acquire(t) ==
    /\ pc[t] = "r_lock"
    /\ lock = NoThread
    /\ lock' = t
    /\ pc' = [pc EXCEPT ![t] = "r_swap"]
    /\ UNCHANGED <<fsVars, calls, constructed, predefined_voices, file_voices,
                   heap, op, refreshVars, voices, ret, histVars>>

\* the entries of old whose name no entry of new has
RECURSIVE NotIn(_, _)
NotIn(old, new) ==
    IF old = <<>> THEN <<>>
    ELSE IF \E i \in 1..Len(new) : new[i].name = old[1].name
         THEN NotIn(Tail(old), new)
         ELSE <<old[1]>> \o NotIn(Tail(old), new)

\* refresh_swap keeping the voices the scan did not find: the new list is
\* the scan followed by the old entries it lacks
refresh_swap_keeps_old(t) ==
    /\ pc[t] = "r_swap"
    /\ file_voices' = new_file_voices[t]
    /\ heap' = Collect([heap EXCEPT ![new_file_voices[t]] =
                            @ \o NotIn(heap[file_voices], @)],
                       Live(file_voices', new_file_voices, voices, ret))
    /\ pc' = [pc EXCEPT ![t] = "r_unlock"]
    /\ published' = published \cup {heap'[file_voices']}
    /\ lastSwap' = t
    /\ raced' = (raced \/ \E u \in Threads \ {t} : InRefresh(u))
    /\ removedSinceListed' = staleFor[t]
    /\ UNCHANGED <<fsVars, calls, constructed, predefined_voices, lock, op,
                   refreshVars, voices, ret, scanResult, seen, cleanStart,
                   refreshedSince, staleFor, startedAfterRead, snap>>

\* refresh_swap that also enters the names of the scanned voices into
\* self._predefined_voices
refresh_swap_registers_names(t) ==
    /\ pc[t] = "r_swap"
    /\ file_voices' = new_file_voices[t]
    /\ LET new == heap[new_file_voices[t]]
           names == {new[i].name : i \in 1..Len(new)}
       IN predefined_voices' =
            [n \in DOMAIN predefined_voices \cup names |->
                IF n \in DOMAIN predefined_voices THEN predefined_voices[n] ELSE 1]
    /\ heap' = Collect(heap, Live(file_voices', new_file_voices, voices, ret))
    /\ pc' = [pc EXCEPT ![t] = "r_unlock"]
    /\ published' = published \cup {heap'[file_voices']}
    /\ lastSwap' = t
    /\ raced' = (raced \/ \E u \in Threads \ {t} : InRefresh(u))
    /\ removedSinceListed' = staleFor[t]
    /\ UNCHANGED <<fsVars, calls, constructed, lock, op,
                   refreshVars, voices, ret, scanResult, seen, cleanStart,
                   refreshedSince, staleFor, startedAfterRead, snap>>

\* refresh_swap as self._file_voices.extend(new_file_voices): the scan is
\* added to the list in place
refresh_swap_extends(t) ==
    /\ pc[t] = "r_swap"
    /\ file_voices' = file_voices
    /\ heap' = [heap EXCEPT ![file_voices] = @ \o heap[new_file_voices[t]]]
    /\ pc' = [pc EXCEPT ![t] = "r_unlock"]
    /\ published' = published \cup {heap'[file_voices']}
    /\ lastSwap' = t
    /\ raced' = (raced \/ \E u \in Threads \ {t} : InRefresh(u))
    /\ removedSinceListed' = staleFor[t]
    /\ UNCHANGED <<fsVars, calls, constructed, predefined_voices, lock, op,
                   refreshVars, voices, ret, scanResult, seen, cleanStart,
                   refreshedSince, staleFor, startedAfterRead, snap>>

\* line 57: self._file_voices = new_file_voices
refresh_swap(t) ==
    /\ pc[t] = "r_swap"
    /\ file_voices' = new_file_voices[t]
    /\ heap' = Collect(heap, Live(file_voices', new_file_voices, voices, ret))
    /\ pc' = [pc EXCEPT ![t] = "r_unlock"]
    /\ published' = published \cup {heap'[file_voices']}
    /\ lastSwap' = t
    /\ raced' = (raced \/ \E u \in Threads \ {t} : InRefresh(u))
    /\ removedSinceListed' = staleFor[t]
    /\ UNCHANGED <<fsVars, calls, constructed, predefined_voices, lock, op,
                   refreshVars, voices, ret, scanResult, seen, cleanStart,
                   refreshedSince, staleFor, startedAfterRead, snap>>

\* line 56 (the with block is left) and lines 59-63: logger.info, return;
\* __init__ returns with it (line 27)
refresh_release(t) ==
    /\ pc[t] = "r_unlock"
    /\ lock' = NoThread
    /\ pc' = [pc EXCEPT ![t] = "idle"]
    /\ ret' = [ret EXCEPT ![t] = Returned]
    /\ new_file_voices' = [new_file_voices EXCEPT ![t] = NoList]
    /\ heap' = Collect(heap, Live(file_voices, new_file_voices', voices, ret'))
    /\ constructed' = (constructed \/ op[t] = "__init__")
    /\ wav_files' = [wav_files EXCEPT ![t] = <<>>]
    /\ idx' = [idx EXCEPT ![t] = 0]
    /\ transcript' = [transcript EXCEPT ![t] = None]
    /\ seen' = [seen EXCEPT ![t] = <<>>]
    /\ refreshedSince' = refreshedSince \cup cleanStart[t]
    /\ UNCHANGED <<fsVars, calls, predefined_voices, file_voices, op, voices,
                   published, lastSwap, scanResult, raced, cleanStart,
                   staleFor, removedSinceListed, startedAfterRead, snap>>

\* call_refresh rebuilding the list in place: new_file_voices is
\* self._file_voices, cleared
call_refresh_in_place(t) ==
    /\ constructed
    /\ pc[t] = "idle"
    /\ calls < MaxCalls
    /\ calls' = calls + 1
    /\ op' = [op EXCEPT ![t] = "refresh"]
    /\ ret' = [ret EXCEPT ![t] = NoRet]
    /\ new_file_voices' = [new_file_voices EXCEPT ![t] = file_voices]
    /\ heap' = [Collect(heap, Live(file_voices, new_file_voices', voices, ret'))
                    EXCEPT ![file_voices] = <<>>]
    /\ pc' = [pc EXCEPT ![t] = "r_check"]
    /\ wav_files' = [wav_files EXCEPT ![t] = <<>>]
    /\ idx' = [idx EXCEPT ![t] = 0]
    /\ transcript' = [transcript EXCEPT ![t] = None]
    /\ seen' = [seen EXCEPT ![t] = <<>>]
    /\ cleanStart' = [cleanStart EXCEPT ![t] = Stems \ wavs]
    /\ startedAfterRead' = [startedAfterRead EXCEPT ![t] =
            \E u \in Threads : /\ op[u] = "get_all_voices"
                                /\ pc[u] = "idle"
                                /\ ret[u].kind = "list"]
    /\ UNCHANGED <<fsVars, constructed, predefined_voices, file_voices, lock,
                   voices, published, lastSwap, scanResult, raced,
                   refreshedSince, staleFor, removedSinceListed, snap>>

\* a thread calls refresh(); line 31: new_file_voices = []
call_refresh(t) ==
    /\ constructed
    /\ pc[t] = "idle"
    /\ calls < MaxCalls
    /\ calls' = calls + 1
    /\ op' = [op EXCEPT ![t] = "refresh"]
    /\ ret' = [ret EXCEPT ![t] = NoRet]
    /\ LET id == FreshId(Live(file_voices, new_file_voices, voices, ret')) IN
        /\ new_file_voices' = [new_file_voices EXCEPT ![t] = id]
        /\ heap' = [Collect(heap, Live(file_voices, new_file_voices', voices, ret'))
                        EXCEPT ![id] = <<>>]
    /\ pc' = [pc EXCEPT ![t] = "r_check"]
    /\ wav_files' = [wav_files EXCEPT ![t] = <<>>]
    /\ idx' = [idx EXCEPT ![t] = 0]
    /\ transcript' = [transcript EXCEPT ![t] = None]
    /\ seen' = [seen EXCEPT ![t] = <<>>]
    /\ cleanStart' = [cleanStart EXCEPT ![t] = Stems \ wavs]
    /\ startedAfterRead' = [startedAfterRead EXCEPT ![t] =
            \E u \in Threads : /\ op[u] = "get_all_voices"
                                /\ pc[u] = "idle"
                                /\ ret[u].kind = "list"]
    /\ UNCHANGED <<fsVars, constructed, predefined_voices, file_voices, lock,
                   voices, published, lastSwap, scanResult, raced,
                   refreshedSince, staleFor, removedSinceListed, snap>>

(***************************************************************************)
(* get_all_voices, lines 65-77                                             *)
(***************************************************************************)
\* [VoiceInfo(name=name, source="predefined") for name in sorted(keys)],
\* for the order e in which the dict yields its keys
PredefinedList(e) ==
    LET names == SortedStrs(e) IN
    [i \in 1..Len(names) |-> VoiceInfo(names[i], "predefined", None, None)]

\* lines 67-71: voices = [], then the predefined voices are appended
call_get_all_voices(t) ==
    /\ constructed
    /\ pc[t] = "idle"
    /\ calls < MaxCalls
    /\ calls' = calls + 1
    /\ op' = [op EXCEPT ![t] = "get_all_voices"]
    /\ ret' = [ret EXCEPT ![t] = NoRet]
    /\ \E e \in Enumerations(DOMAIN predefined_voices) :
        LET id == FreshId(Live(file_voices, new_file_voices, voices, ret')) IN
        /\ voices' = [voices EXCEPT ![t] = id]
        /\ heap' = [Collect(heap, Live(file_voices, new_file_voices, voices', ret'))
                        EXCEPT ![id] = PredefinedList(e)]
    /\ pc' = [pc EXCEPT ![t] = "ga_lock"]
    /\ UNCHANGED <<fsVars, constructed, predefined_voices, file_voices, lock,
                   refreshVars, histVars>>

\* line 74: with self._lock (entered)
get_all_voices_acquire(t) ==
    /\ pc[t] = "ga_lock"
    /\ lock = NoThread
    /\ lock' = t
    /\ pc' = [pc EXCEPT ![t] = "ga_extend"]
    /\ UNCHANGED <<fsVars, calls, constructed, predefined_voices, file_voices,
                   heap, op, refreshVars, voices, ret, histVars>>

\* get_all_voices_extend as voices = self._file_voices: the internal list
\* itself is what is returned
get_all_voices_extend_rebinds(t) ==
    /\ pc[t] = "ga_extend"
    /\ voices' = [voices EXCEPT ![t] = file_voices]
    /\ heap' = Collect(heap, Live(file_voices, new_file_voices, voices', ret))
    /\ snap' = [snap EXCEPT ![t] = heap[file_voices]]
    /\ pc' = [pc EXCEPT ![t] = "ga_unlock"]
    /\ UNCHANGED <<fsVars, calls, constructed, predefined_voices, file_voices,
                   lock, op, refreshVars, ret, published, lastSwap,
                   scanResult, raced, seen, cleanStart, refreshedSince,
                   staleFor, removedSinceListed, startedAfterRead>>

\* line 75: voices.extend(self._file_voices)
get_all_voices_extend(t) ==
    /\ pc[t] = "ga_extend"
    /\ heap' = [heap EXCEPT ![voices[t]] = @ \o heap[file_voices]]
    /\ snap' = [snap EXCEPT ![t] = heap[file_voices]]
    /\ pc' = [pc EXCEPT ![t] = "ga_unlock"]
    /\ UNCHANGED <<fsVars, calls, constructed, predefined_voices, file_voices,
                   lock, op, refreshVars, voices, ret, published, lastSwap,
                   scanResult, raced, seen, cleanStart, refreshedSince,
                   staleFor, removedSinceListed, startedAfterRead>>

\* get_all_voices_release with the lock taken by acquire() and never
\* released
get_all_voices_release_keeps_lock(t) ==
    /\ pc[t] = "ga_unlock"
    /\ ret' = [ret EXCEPT ![t] = ListRet(voices[t])]
    /\ voices' = [voices EXCEPT ![t] = NoList]
    /\ pc' = [pc EXCEPT ![t] = "idle"]
    /\ UNCHANGED <<fsVars, calls, constructed, predefined_voices, file_voices,
                   lock, heap, op, refreshVars, histVars>>

\* line 74 (the with block is left) and line 77: return voices
get_all_voices_release(t) ==
    /\ pc[t] = "ga_unlock"
    /\ lock' = NoThread
    /\ ret' = [ret EXCEPT ![t] = ListRet(voices[t])]
    /\ voices' = [voices EXCEPT ![t] = NoList]
    /\ pc' = [pc EXCEPT ![t] = "idle"]
    /\ UNCHANGED <<fsVars, calls, constructed, predefined_voices, file_voices,
                   heap, op, refreshVars, histVars>>

(***************************************************************************)
(* get_predefined_voices, lines 79-84                                      *)
(***************************************************************************)
get_predefined_voices(t) ==
    /\ constructed
    /\ pc[t] = "idle"
    /\ calls < MaxCalls
    /\ calls' = calls + 1
    /\ op' = [op EXCEPT ![t] = "get_predefined_voices"]
    /\ \E e \in Enumerations(DOMAIN predefined_voices) :
        LET id == FreshId(Live(file_voices, new_file_voices, voices,
                               [ret EXCEPT ![t] = NoRet])) IN
        /\ ret' = [ret EXCEPT ![t] = ListRet(id)]
        /\ heap' = [Collect(heap, Live(file_voices, new_file_voices, voices, ret'))
                        EXCEPT ![id] = PredefinedList(e)]
    /\ UNCHANGED <<fsVars, constructed, predefined_voices, file_voices, lock,
                   pc, refreshVars, voices, histVars>>

(***************************************************************************)
(* get_file_voices, lines 86-89                                            *)
(***************************************************************************)
call_get_file_voices(t) ==
    /\ constructed
    /\ pc[t] = "idle"
    /\ calls < MaxCalls
    /\ calls' = calls + 1
    /\ op' = [op EXCEPT ![t] = "get_file_voices"]
    /\ ret' = [ret EXCEPT ![t] = NoRet]
    /\ heap' = Collect(heap, Live(file_voices, new_file_voices, voices, ret'))
    /\ pc' = [pc EXCEPT ![t] = "gf_lock"]
    /\ UNCHANGED <<fsVars, constructed, predefined_voices, file_voices, lock,
                   refreshVars, voices, histVars>>

\* line 88: with self._lock (entered)
get_file_voices_acquire(t) ==
    /\ pc[t] = "gf_lock"
    /\ lock = NoThread
    /\ lock' = t
    /\ pc' = [pc EXCEPT ![t] = "gf_copy"]
    /\ UNCHANGED <<fsVars, calls, constructed, predefined_voices, file_voices,
                   heap, op, refreshVars, voices, ret, histVars>>

\* get_file_voices_copy as return self._file_voices: the internal list
\* itself is returned
get_file_voices_copy_returns_internal(t) ==
    /\ pc[t] = "gf_copy"
    /\ ret' = [ret EXCEPT ![t] = ListRet(file_voices)]
    /\ snap' = [snap EXCEPT ![t] = heap[file_voices]]
    /\ pc' = [pc EXCEPT ![t] = "gf_unlock"]
    /\ UNCHANGED <<fsVars, calls, objVars, op, refreshVars, voices, published,
                   lastSwap, scanResult, raced, seen, cleanStart,
                   refreshedSince, staleFor, removedSinceListed,
                   startedAfterRead>>

\* line 89: list(self._file_voices), the value to return
get_file_voices_copy(t) ==
    /\ pc[t] = "gf_copy"
    /\ LET id == FreshId(LiveNow) IN
        /\ ret' = [ret EXCEPT ![t] = ListRet(id)]
        /\ heap' = [heap EXCEPT ![id] = heap[file_voices]]
    /\ snap' = [snap EXCEPT ![t] = heap[file_voices]]
    /\ pc' = [pc EXCEPT ![t] = "gf_unlock"]
    /\ UNCHANGED <<fsVars, calls, constructed, predefined_voices, file_voices,
                   lock, op, refreshVars, voices, published, lastSwap,
                   scanResult, raced, seen, cleanStart, refreshedSince,
                   staleFor, removedSinceListed, startedAfterRead>>

\* lines 88-89: the with block is left and the copy is returned
get_file_voices_release(t) ==
    /\ pc[t] = "gf_unlock"
    /\ lock' = NoThread
    /\ pc' = [pc EXCEPT ![t] = "idle"]
    /\ UNCHANGED <<fsVars, calls, constructed, predefined_voices, file_voices,
                   heap, op, refreshVars, voices, ret, histVars>>

(***************************************************************************)
(* predefined_count, file_count, total_count, lines 91-105                 *)
(***************************************************************************)
\* line 94: len(self._predefined_voices)
PredefinedCount == Cardinality(DOMAIN predefined_voices)

predefined_count(t) ==
    /\ constructed
    /\ pc[t] = "idle"
    /\ calls < MaxCalls
    /\ calls' = calls + 1
    /\ op' = [op EXCEPT ![t] = "predefined_count"]
    /\ ret' = [ret EXCEPT ![t] = IntRet(PredefinedCount)]
    /\ heap' = Collect(heap, Live(file_voices, new_file_voices, voices, ret'))
    /\ UNCHANGED <<fsVars, constructed, predefined_voices, file_voices, lock,
                   pc, refreshVars, voices, histVars>>

call_file_count(t) ==
    /\ constructed
    /\ pc[t] = "idle"
    /\ calls < MaxCalls
    /\ calls' = calls + 1
    /\ op' = [op EXCEPT ![t] = "file_count"]
    /\ ret' = [ret EXCEPT ![t] = NoRet]
    /\ heap' = Collect(heap, Live(file_voices, new_file_voices, voices, ret'))
    /\ pc' = [pc EXCEPT ![t] = "fc_lock"]
    /\ UNCHANGED <<fsVars, constructed, predefined_voices, file_voices, lock,
                   refreshVars, voices, histVars>>

\* call_total_count with total_count taking the lock itself before it
\* enters file_count
call_total_count_under_lock(t) ==
    /\ constructed
    /\ pc[t] = "idle"
    /\ calls < MaxCalls
    /\ lock = NoThread
    /\ lock' = t
    /\ calls' = calls + 1
    /\ op' = [op EXCEPT ![t] = "total_count"]
    /\ ret' = [ret EXCEPT ![t] = NoRet]
    /\ heap' = Collect(heap, Live(file_voices, new_file_voices, voices, ret'))
    /\ pc' = [pc EXCEPT ![t] = "fc_lock"]
    /\ UNCHANGED <<fsVars, constructed, predefined_voices, file_voices,
                   refreshVars, voices, histVars>>

\* line 105: self.predefined_count is evaluated, then self.file_count is
\* entered, with the lock not held
call_total_count(t) ==
    /\ constructed
    /\ pc[t] = "idle"
    /\ calls < MaxCalls
    /\ calls' = calls + 1
    /\ op' = [op EXCEPT ![t] = "total_count"]
    /\ ret' = [ret EXCEPT ![t] = NoRet]
    /\ heap' = Collect(heap, Live(file_voices, new_file_voices, voices, ret'))
    /\ pc' = [pc EXCEPT ![t] = "fc_lock"]
    /\ UNCHANGED <<fsVars, constructed, predefined_voices, file_voices, lock,
                   refreshVars, voices, histVars>>

\* line 99: with self._lock (entered)
file_count_acquire(t) ==
    /\ pc[t] = "fc_lock"
    /\ lock = NoThread
    /\ lock' = t
    /\ pc' = [pc EXCEPT ![t] = "fc_len"]
    /\ UNCHANGED <<fsVars, calls, constructed, predefined_voices, file_voices,
                   heap, op, refreshVars, voices, ret, histVars>>

\* line 100: len(self._file_voices), the value to return
file_count_len(t) ==
    /\ pc[t] = "fc_len"
    /\ ret' = [ret EXCEPT ![t] = IntRet(Len(heap[file_voices]))]
    /\ snap' = [snap EXCEPT ![t] = heap[file_voices]]
    /\ pc' = [pc EXCEPT ![t] = "fc_unlock"]
    /\ UNCHANGED <<fsVars, calls, objVars, op, refreshVars, voices, published,
                   lastSwap, scanResult, raced, seen, cleanStart,
                   refreshedSince, staleFor, removedSinceListed,
                   startedAfterRead>>

\* file_count_release with total_count returning self.file_count alone
file_count_release_omits_predefined(t) ==
    /\ pc[t] = "fc_unlock"
    /\ lock' = NoThread
    /\ pc' = [pc EXCEPT ![t] = "idle"]
    /\ UNCHANGED <<fsVars, calls, constructed, predefined_voices, file_voices,
                   heap, op, refreshVars, voices, ret, histVars>>

\* lines 99-100: the with block is left and the length is returned;
\* line 105: total_count adds it to predefined_count
file_count_release(t) ==
    /\ pc[t] = "fc_unlock"
    /\ lock' = NoThread
    /\ ret' = [ret EXCEPT ![t] =
                 IF op[t] = "total_count" THEN IntRet(PredefinedCount + @.v) ELSE @]
    /\ pc' = [pc EXCEPT ![t] = "idle"]
    /\ UNCHANGED <<fsVars, calls, constructed, predefined_voices, file_voices,
                   heap, op, refreshVars, voices, histVars>>

(***************************************************************************)
(* The filesystem changes under the registry.                              *)
(***************************************************************************)
fs_add_wav(s) ==
    /\ fsChanges < MaxFsChanges
    /\ s \notin wavs
    /\ wavs' = wavs \cup {s}
    /\ fsChanges' = fsChanges + 1
    /\ cleanStart' = [t \in Threads |-> cleanStart[t] \ {s}]
    /\ refreshedSince' = refreshedSince \ {s}
    /\ UNCHANGED <<dir, txt, calls, objVars, pc, op, refreshVars, voices, ret,
                   published, lastSwap, scanResult, raced, seen, staleFor,
                   removedSinceListed, startedAfterRead, snap>>

fs_remove_wav(s) ==
    /\ fsChanges < MaxFsChanges
    /\ s \in wavs
    /\ wavs' = wavs \ {s}
    /\ fsChanges' = fsChanges + 1
    /\ staleFor' = [t \in Threads |-> staleFor[t] \cup {s}]
    /\ removedSinceListed' = removedSinceListed \cup {s}
    /\ UNCHANGED <<dir, txt, calls, objVars, pc, op, refreshVars, voices, ret,
                   published, lastSwap, scanResult, raced, seen, cleanStart,
                   refreshedSince, startedAfterRead, snap>>

fs_set_txt(s, k) ==
    /\ fsChanges < MaxFsChanges
    /\ txt[s] # k
    /\ txt' = [txt EXCEPT ![s] = k]
    /\ fsChanges' = fsChanges + 1
    /\ UNCHANGED <<dir, wavs, calls, objVars, pc, op, refreshVars, voices, ret,
                   histVars>>

fs_set_dir(d) ==
    /\ fsChanges < MaxFsChanges
    /\ dir # d
    /\ dir' = d
    /\ fsChanges' = fsChanges + 1
    /\ UNCHANGED <<wavs, txt, calls, objVars, pc, op, refreshVars, voices, ret,
                   histVars>>

(***************************************************************************)
(* The caller owns the list an accessor returned (lines 77, 84, 89) and    *)
(* may change it: remove its first entry, reverse it, or add an entry.     *)
(* It does so once for a list, while the list is as it was returned.       *)
(***************************************************************************)
RECURSIVE Reverse(_)
Reverse(l) == IF l = <<>> THEN <<>> ELSE Append(Reverse(Tail(l)), l[1])

CallerVoice == VoiceInfo(<<122>>, "predefined", None, None)

Mutations(l) ==
    ({Reverse(l), Append(l, CallerVoice)}
        \cup (IF l = <<>> THEN {} ELSE {Tail(l)})) \ {l}

\* the list the thread's accessor returned is as it was returned
AsReturned(t) ==
    \E e \in Enumerations(DOMAIN predefined_voices) :
        heap[ret[t].v] = CASE op[t] = "get_file_voices" -> snap[t]
                           [] op[t] = "get_all_voices" -> PredefinedList(e) \o snap[t]
                           [] OTHER -> PredefinedList(e)

caller_mutates(t) ==
    /\ pc[t] = "idle"
    /\ ret[t].kind = "list"
    /\ AsReturned(t)
    /\ \E l \in Mutations(heap[ret[t].v]) :
        heap' = [heap EXCEPT ![ret[t].v] = l]
    /\ UNCHANGED <<fsVars, calls, constructed, predefined_voices, file_voices,
                   lock, pc, op, refreshVars, voices, ret, histVars>>

(***************************************************************************)
(* The specification.                                                      *)
(***************************************************************************)
Next ==
    \/ \E t \in Threads : refresh_check(t)
    \/ \E t \in Threads : refresh_glob(t)
    \/ \E t \in Threads : refresh_txt_exists(t)
    \/ \E t \in Threads : refresh_read(t)
    \/ \E t \in Threads : refresh_acquire(t)
    \/ \E t \in Threads : refresh_swap(t)
    \/ \E t \in Threads : refresh_release(t)
    \/ \E t \in Threads : call_refresh(t)
    \/ \E t \in Threads : call_get_all_voices(t)
    \/ \E t \in Threads : get_all_voices_acquire(t)
    \/ \E t \in Threads : get_all_voices_extend(t)
    \/ \E t \in Threads : get_all_voices_release(t)
    \/ \E t \in Threads : get_predefined_voices(t)
    \/ \E t \in Threads : call_get_file_voices(t)
    \/ \E t \in Threads : get_file_voices_acquire(t)
    \/ \E t \in Threads : get_file_voices_copy(t)
    \/ \E t \in Threads : get_file_voices_release(t)
    \/ \E t \in Threads : predefined_count(t)
    \/ \E t \in Threads : call_file_count(t)
    \/ \E t \in Threads : call_total_count(t)
    \/ \E t \in Threads : file_count_acquire(t)
    \/ \E t \in Threads : file_count_len(t)
    \/ \E t \in Threads : file_count_release(t)
    \/ \E s \in Bases : fs_add_wav(s)
    \/ \E s \in Bases : fs_remove_wav(s)
    \/ \E s \in DOMAIN txt, k \in TxtStates : fs_set_txt(s, k)
    \/ \E d \in DirStates : fs_set_dir(d)

Spec == Init /\ [][Next]_vars


(***************************************************************************)
(* Fair scheduling: a thread inside a call that can take a step takes one, *)
(* and a thread waiting for the lock gets it if the lock is free again and *)
(* again.  Nothing obliges a thread to start a call, or the filesystem to  *)
(* change.                                                                 *)
(***************************************************************************)
LockStep(t) ==
    \/ refresh_acquire(t)
    \/ get_all_voices_acquire(t)
    \/ get_file_voices_acquire(t)
    \/ file_count_acquire(t)

RunStep(t) ==
    \/ refresh_check(t)
    \/ refresh_glob(t)
    \/ refresh_txt_exists(t)
    \/ refresh_read(t)
    \/ refresh_swap(t)
    \/ refresh_release(t)
    \/ get_all_voices_extend(t)
    \/ get_all_voices_release(t)
    \/ get_file_voices_copy(t)
    \/ get_file_voices_release(t)
    \/ file_count_len(t)
    \/ file_count_release(t)

\* the registries of Init whose directory starts with readable transcripts
\* and whose predefined map is not empty
FairInit ==
    /\ Init
    /\ \A s \in Stems : txt[s] = "ok"
    /\ DOMAIN predefined_voices # {}

FairSpec ==
    /\ FairInit
    /\ [][Next]_vars
    /\ \A t \in Threads : WF_vars(RunStep(t)) /\ SF_vars(LockStep(t))

(***************************************************************************)
(* The registry with callers that change the lists they were returned.     *)
(***************************************************************************)
NextWithCaller ==
    \/ Next
    \/ \E t \in Threads : caller_mutates(t)

CallerSpec == FairInit /\ [][NextWithCaller]_vars

(***************************************************************************)
(* The registry over a directory that can be scanned and whose .wav files  *)
(* are ".wav" and ".wav.wav".                                              *)
(***************************************************************************)
DotInit == InitFor(DotStems) /\ dir = "ok"

DotSpec == DotInit /\ [][Next]_vars

(***************************************************************************)
(* Properties.                                                             *)
(***************************************************************************)
\* positions of a thread: performing filesystem I/O, waiting for the lock
\* in a read query, inside a guarded section
IOPcs == {"r_check", "r_glob", "r_txt", "r_read"}
ReadLockPcs == {"ga_lock", "gf_lock", "fc_lock"}
ReadOps == {"get_all_voices", "get_file_voices", "file_count", "total_count"}
GuardedPcs == {"r_swap", "r_unlock", "ga_extend", "ga_unlock", "gf_copy",
               "gf_unlock", "fc_len", "fc_unlock"}
Names(l) == {l[i].name : i \in 1..Len(l)}

\* C1: the file-voice list is at every moment a list that a refresh
\* swapped in whole (or the empty list of before the first swap), and so
\* is the list every read query took: what get_file_voices returns is such
\* a list, what get_all_voices returns is the predefined voices followed by
\* such a list, and file_count and total_count return the length of one.
C1_ReadersSeeCompleteLists ==
    /\ heap[file_voices] \in published
    /\ \A t \in Threads :
        /\ (op[t] = "get_file_voices" /\ ret[t].kind = "list")
              => heap[ret[t].v] \in published
        /\ (op[t] = "get_all_voices" /\ ret[t].kind = "list")
              => \E l \in published, e \in Enumerations(DOMAIN predefined_voices) :
                    heap[ret[t].v] = PredefinedList(e) \o l
        /\ (op[t] = "file_count" /\ ret[t].kind = "int")
              => \E l \in published : ret[t].v = Len(l)
        /\ (op[t] = "total_count" /\ ret[t].kind = "int" /\ pc[t] = "idle")
              => \E l \in published : ret[t].v = PredefinedCount + Len(l)

\* a read query has taken the list while a refresh on another thread has
\* built a part of its own
C1_Witness ==
    \E t, u \in Threads :
        /\ op[t] = "get_file_voices" /\ pc[t] = "gf_unlock"
        /\ heap[ret[t].v] # <<>>
        /\ op[u] = "refresh" /\ pc[u] \in {"r_txt", "r_read"}
        /\ Len(heap[new_file_voices[u]]) = 1
        /\ Len(wav_files[u]) = 2

\* C2: when no refresh is running, the file-voice list is exactly the list
\* built by the scan of the refresh that swapped last.
C2_LastSwapWins ==
    ((\A t \in Threads : ~InRefresh(t)) /\ lastSwap # NoThread)
        => heap[file_voices] = scanResult[lastSwap]

\* two refreshes raced, their scans differ, and both have returned
C2_Witness ==
    /\ raced
    /\ \A t \in Threads : ~InRefresh(t)
    /\ \E t, u \in Threads :
        /\ op[t] = "refresh" /\ op[u] = "refresh"
        /\ ret[t] = Returned /\ ret[u] = Returned
        /\ scanResult[t] # scanResult[u]
        /\ scanResult[t] # <<>> /\ scanResult[u] # <<>>

\* C3: a thread that is performing filesystem I/O of refresh does not hold
\* the lock, and a refresh holds the lock only for the swap.
C3_NoIOUnderLock ==
    \A t \in Threads :
        /\ pc[t] \in IOPcs => lock # t
        /\ (InRefresh(t) /\ lock = t) => pc[t] \in {"r_swap", "r_unlock"}

\* one refresh is inside the guarded swap while another performs I/O
C3_Witness ==
    \E t, u \in Threads :
        /\ pc[t] = "r_swap" /\ lock = t
        /\ pc[u] \in {"r_glob", "r_read"}

\* C4 as stated: no read query ever waits for the lock while another read
\* query holds it.
C4_ReadsNeverBlockReads ==
    \A t, u \in Threads :
        ~(pc[t] \in ReadLockPcs /\ lock = u /\ u # t /\ op[u] \in ReadOps)

\* C4, amended: a read query that waits for the lock waits for a thread
\* that is inside a guarded section (a refresh's swap, or another read's
\* copy or length), never for one that is scanning or has returned.
C4_ReadsWaitOnlyForGuardedSections ==
    \A t \in Threads :
        (pc[t] \in ReadLockPcs /\ lock # NoThread) => pc[lock] \in GuardedPcs

\* a read query waits while another read query holds the lock
C4_Witness ==
    \E t, u \in Threads :
        /\ pc[t] = "gf_lock"
        /\ lock = u /\ op[u] = "get_all_voices" /\ pc[u] = "ga_extend"

\* C5: the lock is held only by a thread inside a guarded section (a
\* thread that has left its call, by return or by exception, does not hold
\* it), and under fair scheduling every call that was started ends.
C5_EveryCallEnds ==
    /\ [](\A t \in Threads : lock = t => pc[t] \in GuardedPcs)
    /\ \A t \in Threads : (pc[t] # "idle") ~> (pc[t] = "idle")

\* total_count has entered file_count and waits for the lock, which a
\* refresh holds for its swap
C5_Witness ==
    \E t, u \in Threads :
        /\ op[t] = "total_count" /\ pc[t] = "fc_lock"
        /\ lock = u /\ pc[u] = "r_swap"

\* C6 as stated: no call ever ends with an exception.
C6_NoErrorEscapes == \A t \in Threads : ret[t].kind # "raised"

\* C7 as stated: when the listing of line 34 fails (the directory cannot be
\* read, or reading it gives an I/O error), the scan ends with an empty
\* list that goes on to the swap, and nothing is raised.
C7_ListingFailureIsEmpty ==
    [][\A t \in Threads :
        (pc[t] = "r_glob" /\ pc'[t] # "r_glob"
            /\ dir \in {"unreadable", "ioerror"})
        => (pc'[t] = "r_lock" /\ scanResult'[t] = <<>>
            /\ ret'[t].kind # "raised")]_vars

\* the entry refresh builds for the i-th file of its listing, given what it
\* found of that file's transcript alone
ExpectedVoice(t, i) ==
    LET wav_path == wav_files[t][i]
        stem == Stem(Name(wav_path))
    IN VoiceInfo(stem, "file", Some(Resolve(wav_path)),
                 IF seen[t][i] = "ok"
                 THEN Some(Strip(ReadText(Content(stem)))) ELSE None)

\* C8: while a refresh scans, its list holds one entry for every file it
\* has gone through, whether the transcript was absent, readable or
\* unreadable; the entry of a file depends on that file's transcript alone
\* and has a null transcript when it could not be read; and the scan goes
\* through every file of the listing before the swap.
C8_BadTranscriptKeepsVoice ==
    \A t \in Threads : InRefresh(t) =>
        LET l == heap[new_file_voices[t]] IN
        /\ Len(l) = Len(seen[t])
        /\ Len(l) <= Len(wav_files[t])
        /\ \A i \in 1..Len(l) : l[i] = ExpectedVoice(t, i)
        /\ pc[t] \in {"r_txt", "r_read"} => Len(l) = idx[t] - 1
        /\ pc[t] \in {"r_lock", "r_swap", "r_unlock"} => Len(l) = Len(wav_files[t])

\* a scan is over that found the first transcript unreadable and read the
\* second
C8_Witness ==
    \E t \in Threads :
        /\ pc[t] = "r_lock"
        /\ seen[t] = <<"unreadable", "ok">>
        /\ Len(heap[new_file_voices[t]]) = 2
        /\ heap[new_file_voices[t]][1].transcript = None
        /\ heap[new_file_voices[t]][2].transcript # None

\* C9 as stated: a voice whose file has been absent ever since the start of
\* a refresh that has returned is not in the file-voice list.
C9_RemovedVoiceGoneAfterAnyRefresh ==
    \A f \in refreshedSince : f \notin Names(heap[file_voices])

\* C9, amended: a voice whose file is absent, and was not removed after the
\* listing that the current file-voice list was built from, is not in the
\* file-voice list.
C9_RemovedVoiceGoneAfterLastListing ==
    \A f \in Stems :
        (f \notin wavs /\ f \notin removedSinceListed)
            => f \notin Names(heap[file_voices])

\* a voice was published, its file was removed, and a refresh that began
\* and listed the directory after the removal has swapped and returned
C9_Witness ==
    \E f \in Stems :
        /\ f \notin wavs
        /\ f \in refreshedSince
        /\ f \notin removedSinceListed
        /\ \E l \in published : f \in Names(l)
        /\ heap[file_voices] # <<>>

\* C10: the sequence a get_all_voices call returned is, at every later
\* moment, the predefined voices followed by the file-voice list as it was
\* at the moment the call took it.
C10_SnapshotIsolation ==
    \A t \in Threads :
        (op[t] = "get_all_voices" /\ pc[t] = "idle" /\ ret[t].kind = "list")
            => \E e \in Enumerations(DOMAIN predefined_voices) :
                    heap[ret[t].v] = PredefinedList(e) \o snap[t]

\* a get_all_voices call returned a list with file voices; a refresh that
\* began after that has swapped in a different list and returned
C10_Witness ==
    \E t, u \in Threads :
        /\ op[t] = "get_all_voices" /\ pc[t] = "idle" /\ ret[t].kind = "list"
        /\ snap[t] # <<>>
        /\ op[u] = "refresh" /\ startedAfterRead[u] /\ ret[u] = Returned
        /\ lastSwap = u
        /\ heap[file_voices] # snap[t]

\* the file name of a file voice: the last part of its file_path
FileName(v) == Name(v.file_path[1])

\* a list of file voices is in strictly increasing order of file name
SortedByFileName(l) ==
    \A i, j \in 1..Len(l) : i < j => StrLess(FileName(l[i]), FileName(l[j]))

\* C11: what get_all_voices returned is all the predefined voices in
\* strictly increasing order of name, followed by file voices only, in
\* strictly increasing order of file name, whatever the order in which the
\* directory and the dict were enumerated; and over a directory that can be
\* scanned and has not changed, the file voices are those of all its .wav
\* files.
C11_DeterministicOrdering ==
    \A t \in Threads :
        (op[t] = "get_all_voices" /\ pc[t] = "idle" /\ ret[t].kind = "list") =>
            LET r == heap[ret[t].v]
                n == PredefinedCount
                files == SubSeq(r, n + 1, Len(r))
            IN
            /\ Len(r) >= n
            /\ \A i \in 1..n : r[i].source = "predefined"
            /\ {r[i].name : i \in 1..n} = DOMAIN predefined_voices
            /\ \A i, j \in 1..n : i < j => StrLess(r[i].name, r[j].name)
            /\ \A i \in 1..Len(files) : files[i].source = "file"
            /\ SortedByFileName(files)
            /\ (fsChanges = 0 /\ dir = "ok")
                  => {FileName(files[i]) : i \in 1..Len(files)}
                        = {s \o WavSuffix : s \in wavs}

\* get_all_voices returned two predefined voices and then two file voices
\* of a directory that has not changed
C11_Witness ==
    \E t \in Threads :
        /\ op[t] = "get_all_voices" /\ pc[t] = "idle" /\ ret[t].kind = "list"
        /\ fsChanges = 0 /\ dir = "ok"
        /\ Len(heap[ret[t].v]) = 4
        /\ heap[ret[t].v][2].source = "predefined"
        /\ heap[ret[t].v][3].name = <<97, 45>>
        /\ heap[ret[t].v][4].name = <<97>>

\* tr is c without its leading and trailing whitespace
IsTrimOf(tr, c) ==
    \E i, j \in 0..Len(c) :
        /\ i + j <= Len(c)
        /\ tr = SubSeq(c, i + 1, Len(c) - j)
        /\ \A k \in 1..i : c[k] \in Whitespace
        /\ \A k \in (Len(c) - j + 1)..Len(c) : c[k] \in Whitespace
        /\ tr # <<>> => (tr[1] \notin Whitespace /\ tr[Len(tr)] \notin Whitespace)

\* C12 as stated: after construction over a directory that can be scanned
\* and does not change, the file-voice list has one voice per .wav file and
\* none for a .txt file alone; the transcript of a voice with a readable
\* .txt file is the trimmed UTF-8 decoding of the file's bytes, and that of
\* a voice with no .txt file is null.
C12_TranscriptIsTrimmedContents ==
    (constructed /\ fsChanges = 0 /\ dir = "ok") =>
        LET l == heap[file_voices] IN
        /\ Names(l) = wavs
        /\ \A i \in 1..Len(l) :
            /\ txt[l[i].name] = "ok" =>
                /\ l[i].transcript # None
                /\ IsTrimOf(l[i].transcript[1], Utf8Decode(Content(l[i].name)))
            /\ txt[l[i].name] = "none" => l[i].transcript = None

\* C12, amended: the same, with the transcript of a voice with a readable
\* .txt file being the trimmed text of the file as a text-mode read gives
\* it: the UTF-8 decoding of its bytes with every "\r\n" and "\r" turned
\* into "\n".
C12_TranscriptIsTrimmedText ==
    (constructed /\ fsChanges = 0 /\ dir = "ok") =>
        LET l == heap[file_voices] IN
        /\ Names(l) = wavs
        /\ \A i \in 1..Len(l) :
            /\ txt[l[i].name] = "ok" =>
                /\ l[i].transcript # None
                /\ IsTrimOf(l[i].transcript[1], ReadText(Content(l[i].name)))
            /\ txt[l[i].name] = "none" => l[i].transcript = None

\* the registry was built over a directory where a.txt holds
\* " a\r\n\xc3\xa9!\n": the transcript of voice "a" is "a\n\xe9!"
C12_Witness ==
    /\ constructed /\ fsChanges = 0 /\ dir = "ok"
    /\ \E i \in 1..Len(heap[file_voices]) :
        /\ heap[file_voices][i].name = <<97>>
        /\ heap[file_voices][i].transcript = Some(<<97, 10, 233, 33>>)

\* the positions at which a read query has taken the file-voice list
TakenPcs == {"ga_unlock", "gf_unlock", "fc_unlock", "idle"}

\* C13: over a directory that is missing from the start on, the constructor
\* does not raise, and once it has returned the file-voice list is empty,
\* file_count returns 0 and get_file_voices returns an empty list.  In
\* general no call is made before the constructor has returned, and then a
\* swap has happened: until a second call is made, the file-voice list, and
\* the list that the first call took if it is a read query, is the list
\* that the constructor's scan built.
C13_ConstructionCompletesRefresh ==
    /\ (dir = "missing" /\ fsChanges = 0) =>
        /\ ret[Main].kind # "raised"
        /\ constructed => heap[file_voices] = <<>>
        /\ \A t \in Threads :
            /\ (op[t] = "file_count" /\ ret[t].kind = "int") => ret[t].v = 0
            /\ (op[t] = "get_file_voices" /\ ret[t].kind = "list")
                  => heap[ret[t].v] = <<>>
    /\ \A t \in Threads : op[t] \notin {"none", "__init__"} => constructed
    /\ constructed =>
        /\ lastSwap # NoThread
        /\ (calls <= 1 /\ \A t \in Threads : op[t] # "refresh") =>
            /\ lastSwap = Main
            /\ heap[file_voices] = scanResult[Main]
            /\ \A t \in Threads :
                (op[t] \in ReadOps /\ pc[t] \in TakenPcs)
                    => snap[t] = scanResult[Main]

\* the registry was built over a missing directory; file_count returned 0
\* and get_file_voices an empty list
C13_Witness ==
    /\ dir = "missing" /\ fsChanges = 0 /\ constructed
    /\ lastSwap = Main
    /\ wavs # {}
    /\ \E t, u \in Threads :
        /\ op[t] = "file_count" /\ pc[t] = "idle" /\ ret[t] = IntRet(0)
        /\ op[u] = "get_file_voices" /\ pc[u] = "idle"
        /\ ret[u].kind = "list" /\ heap[ret[u].v] = <<>>

\* a VoiceInfo as the data model wants it
WellFormed(v) ==
    /\ v.source \in {"predefined", "file"}
    /\ v.source = "predefined" => (v.file_path = None /\ v.transcript = None)
    /\ v.source = "file" => (v.file_path # None /\ IsAbsolute(v.file_path[1]))

\* C14: every VoiceInfo of every list (the lists being built, the
\* file-voice list, the lists the accessors returned) is well formed: a
\* predefined voice has no file_path and no transcript, a file voice has an
\* absolute file_path; and the file-voice list, like every list that ever
\* was the file-voice list, holds file voices only.
C14_VoiceInfoWellFormed ==
    /\ \A i \in Ids : \A k \in 1..Len(heap[i]) : WellFormed(heap[i][k])
    /\ \A l \in published \cup {heap[file_voices]} :
        \A k \in 1..Len(l) : l[k].source = "file"

\* get_all_voices returned predefined voices and file voices, the latter
\* with the resolved path of their file under the relative directory
C14_Witness ==
    \E t \in Threads :
        /\ op[t] = "get_all_voices" /\ pc[t] = "idle" /\ ret[t].kind = "list"
        /\ Len(heap[ret[t].v]) = 4
        /\ heap[ret[t].v][1].source = "predefined"
        /\ heap[ret[t].v][4].source = "file"
        /\ heap[ret[t].v][4].file_path
              = Some(Cwd \o VoicesDirectory \o <<<<97>> \o WavSuffix>>)

\* C15: no step changes the predefined-voice map, and after every step
\* what get_predefined_voices returned is the predefined voices of that map
\* in sorted order and what predefined_count returned is its size, whatever
\* the filesystem is and however the refreshes ended.
C15_PredefinedFixed ==
    [][/\ predefined_voices' = predefined_voices
       /\ \A t \in Threads :
            /\ (op'[t] = "get_predefined_voices" /\ ret'[t].kind = "list")
                  => \E e \in Enumerations(DOMAIN predefined_voices) :
                        heap'[ret'[t].v] = PredefinedList(e)
            /\ (op'[t] = "predefined_count" /\ ret'[t].kind = "int")
                  => ret'[t].v = Cardinality(DOMAIN predefined_voices)]_vars

\* a refresh ended by raising, and get_predefined_voices on another thread
\* returned the two predefined voices
C15_Witness ==
    \E t, u \in Threads :
        /\ op[t] = "get_predefined_voices" /\ ret[t].kind = "list"
        /\ Len(heap[ret[t].v]) = 2
        /\ heap[ret[t].v][1].name = <<97>>
        /\ op[u] = "refresh" /\ ret[u].kind = "raised"

\* C16: what file_count returned is the length of the list that was the
\* file-voice list at the instant the call measured it, a list that a
\* refresh swapped in whole; what total_count returned is the number of
\* predefined voices plus such a length; whatever refreshes run meanwhile.
C16_CountsNotTorn ==
    \A t \in Threads :
        /\ (op[t] = "file_count" /\ ret[t].kind = "int") =>
            /\ snap[t] \in published
            /\ ret[t].v = Len(snap[t])
        /\ (op[t] = "total_count" /\ ret[t].kind = "int") =>
            /\ snap[t] \in published
            /\ ret[t].v = IF pc[t] = "idle"
                          THEN Cardinality(DOMAIN predefined_voices) + Len(snap[t])
                          ELSE Len(snap[t])

\* total_count returned 2 + 2 while a refresh on another thread had built
\* one entry of its list of two
C16_Witness ==
    \E t, u \in Threads :
        /\ op[t] = "total_count" /\ pc[t] = "idle" /\ ret[t] = IntRet(4)
        /\ Len(snap[t]) = 2
        /\ op[u] = "refresh" /\ pc[u] \in {"r_txt", "r_read"}
        /\ Len(heap[new_file_voices[u]]) = 1
        /\ Len(wav_files[u]) = 2

\* C17: with callers that remove, reorder and add entries of the lists
\* they were returned: a returned list is never the internal list object
\* and no two calls returned the same object; the file-voice list stays a
\* list that a refresh swapped in (with no refresh running, the scan of the
\* last swapper), and so does the list every later query takes, which
\* get_file_voices hands out as an equal copy.
C17_ReturnedListsAreCopies ==
    /\ \A t \in Threads : ret[t].kind = "list" =>
        /\ ret[t].v # file_voices
        /\ \A u \in Threads \ {t} : ret[u].kind = "list" => ret[u].v # ret[t].v
    /\ heap[file_voices] \in published
    /\ ((\A t \in Threads : ~InRefresh(t)) /\ lastSwap # NoThread)
          => heap[file_voices] = scanResult[lastSwap]
    /\ \A t \in Threads :
        /\ snap[t] \in published
        /\ pc[t] = "gf_unlock" =>
              (heap[ret[t].v] = heap[file_voices] /\ snap[t] = heap[file_voices])
        /\ pc[t] = "ga_unlock" => snap[t] = heap[file_voices]
        /\ pc[t] = "fc_unlock" => ret[t].v = Len(heap[file_voices])

\* a caller has changed the list get_file_voices returned to it, and a
\* later get_file_voices on another thread holds an equal copy of the
\* file-voice list, which is not empty
C17_Witness ==
    \E t, u \in Threads :
        /\ op[t] = "get_file_voices" /\ pc[t] = "idle" /\ ret[t].kind = "list"
        /\ heap[ret[t].v] # snap[t]
        /\ snap[t] # <<>>
        /\ op[u] = "get_file_voices" /\ pc[u] = "gf_unlock"
        /\ heap[ret[u].v] = snap[t]

\* C18 as stated: no two entries of the file-voice list, or of a list that
\* ever was the file-voice list, share a name; no two predefined voices
\* that get_all_voices or get_predefined_voices returned share a name; and
\* what get_all_voices returned has as many entries as there are predefined
\* voices plus the entries of the file-voice list it took, names that occur
\* in both categories included.
C18_NamesUniquePerSource ==
    /\ \A l \in published \cup {heap[file_voices]} :
        \A i, j \in 1..Len(l) : i # j => l[i].name # l[j].name
    /\ \A t \in Threads :
        (op[t] \in {"get_all_voices", "get_predefined_voices"}
            /\ pc[t] = "idle" /\ ret[t].kind = "list") =>
            LET r == heap[ret[t].v] IN
            /\ \A i, j \in 1..Len(r) :
                (i # j /\ r[i].source = "predefined" /\ r[j].source = "predefined")
                    => r[i].name # r[j].name
            /\ op[t] = "get_all_voices"
                  => Len(r) = Cardinality(DOMAIN predefined_voices) + Len(snap[t])

\* C19: a step at which a refresh ends by an exception is a step of its
\* scan, made without the lock; it leaves the file-voice list, its entries
\* and the lock as they are.  A refresh that has finished its scan does not
\* raise, and only the swap of a refresh changes the file-voice list.
C19_AbortedRefreshChangesNothing ==
    [][/\ \A t \in Threads :
            /\ (ret'[t].kind = "raised" /\ ret[t].kind # "raised") =>
                /\ pc[t] \in IOPcs
                /\ lock # t /\ lock' = lock
                /\ file_voices' = file_voices
                /\ heap'[file_voices] = heap[file_voices]
                /\ published' = published
            /\ pc[t] \in {"r_lock", "r_swap", "r_unlock"}
                  => ret'[t].kind # "raised"
       /\ (file_voices' # file_voices \/ heap'[file_voices'] # heap[file_voices])
            => \E t \in Threads : pc[t] = "r_swap" /\ pc'[t] = "r_unlock"]_vars

\* a refresh was aborted by an exception; afterwards get_file_voices on
\* another thread copies the list that the constructor published, which is
\* not empty, and the lock is held by that reader alone
C19_Witness ==
    \E t, u \in Threads :
        /\ op[t] = "refresh" /\ pc[t] = "idle" /\ ret[t].kind = "raised"
        /\ lastSwap = Main
        /\ op[u] = "get_file_voices" /\ pc[u] = "gf_unlock" /\ lock = u
        /\ heap[ret[u].v] = scanResult[Main]
        /\ Len(heap[ret[u].v]) = 2

\* C20: the listing of a refresh is the .wav files that the directory
\* holds at that step, in strictly increasing order; it does not change
\* for the rest of the call, whatever is added to or removed from the
\* directory; and the list that the swap publishes has exactly one entry
\* for each file of that listing, in its order, with the name and the
\* resolved path of the file.
C20_PublishedSetFixedByListing ==
    [][\A t \in Threads :
        /\ (pc[t] = "r_glob" /\ pc'[t] \in {"r_txt", "r_lock"}) =>
            /\ Range(wav_files'[t]) =
                  IF dir \in {"ok", "unsearchable"}
                  THEN {VoicesDirectory \o <<b \o WavSuffix>> : b \in wavs}
                  ELSE {}
            /\ \A i, j \in 1..Len(wav_files'[t]) :
                  i < j => PathLess(wav_files'[t][i], wav_files'[t][j])
        /\ (pc[t] \in {"r_txt", "r_read", "r_lock", "r_swap"} /\ pc'[t] # "idle")
              => wav_files'[t] = wav_files[t]
        /\ (pc[t] = "r_swap" /\ pc'[t] = "r_unlock") =>
            LET l == heap'[file_voices'] IN
            /\ Len(l) = Len(wav_files[t])
            /\ \A i \in 1..Len(l) :
                /\ l[i].name = Stem(Name(wav_files[t][i]))
                /\ l[i].file_path = Some(Resolve(wav_files[t][i]))
                /\ l[i].source = "file"]_vars

\* a refresh has published two voices although one of their files was
\* removed after its listing
C20_Witness ==
    \E t \in Threads :
        /\ op[t] = "refresh" /\ pc[t] = "r_unlock" /\ lastSwap = t
        /\ staleFor[t] # {}
        /\ Cardinality(wavs) = 1
        /\ Len(heap[file_voices]) = 2
        /\ Len(wav_files[t]) = 2
=============================================================================
